---- MODULE Spec2Model ----
(***************************************************************************)
(* Model of debugging/tasks/analyze.js: one run of the "analyze" task over *)
(* an agency dump.  The dump is the input (drawn in Init); the actions are *)
(* the statements of exports.run in program order: the extract* analyzers, *)
(* the print* reporters that compute "infected", and the save* exporters.  *)
(***************************************************************************)
EXTENDS Integers, Sequences, FiniteSets, TLC

VARIABLES dump, info, pc, infected, files, clean, printed

vars == <<dump, info, pc, infected, files, clean, printed>>

(* ------------------------------ bounds -------------------------------- *)
\* longest server list (planned, observed, failoverCandidates, cleaned)
MaxLen == 2
\* longest index list of a collection
MaxIdx == 2

(* --------------------------- sequence helpers -------------------------- *)
Range(s) == { s[i] : i \in 1..Len(s) }

\* Array.prototype.indexOf, 0-based, -1 when absent
IndexOf(s, x) ==
  IF x \in Range(s) THEN (CHOOSE i \in 1..Len(s) : s[i] = x /\ \A j \in 1..(i-1) : s[j] # x) - 1
  ELSE -1

RECURSIVE Flatten(_)
Flatten(ss) == IF ss = <<>> THEN <<>> ELSE Head(ss) \o Flatten(Tail(ss))

\* [ f(s[1]), ..., f(s[n]) ] concatenated: a loop that pushes F(x) for each x
FlatMap(s, F(_)) == Flatten([i \in 1..Len(s) |-> F(s[i])])

\* all sequences over S of length lo..hi
SeqsOver(S, lo, hi) == UNION { [1..n -> S] : n \in lo..hi }

\* sequences without a repeated element
NoDup(s) == \A i, j \in 1..Len(s) : i # j => s[i] # s[j]

(* ------------------------------ universe ------------------------------- *)
Servers == {"A", "B", "C"}
\* iteration order of Supervision.Health
ServerOrder == <<"A", "B", "C">>

\* a server list as the agency holds it: no server twice
ServerLists(lo, hi) == { s \in SeqsOver(Servers, lo, hi) : NoDup(s) }

\* Supervision.Health[server].Endpoint
Endpoint(s) ==
  IF s = "B" THEN [scheme |-> "ssl", hostport |-> "//b:8529"]
  ELSE IF s = "A" THEN [scheme |-> "tcp", hostport |-> "//a:8529"]
  ELSE [scheme |-> "tcp", hostport |-> "//c:8529"]

\* shard names in string order (s1 < s2 < ...)
ShardOrder == <<"s1", "s2", "s91", "s92", "s93", "s94", "s95", "s96">>
ShardRank(sh) == IndexOf(ShardOrder, sh)

\* the system collections a database is expected to have
RequiredSystemCollections ==
  <<"_apps", "_appbundles", "_aqlfunctions", "_graphs", "_jobs", "_queues">>

(* ------------------------------- the dump ------------------------------ *)
(* dump = [ absent, engine, PlanDatabases, PlanCollections, PlanCoordinators,*)
(*          CurrentCoordinators, CurrentDatabases, CurrentCollections,     *)
(*          Health, CleanedServers, hasStores, callbacks ]                 *)
(* Mappings are sequences of entries in their iteration order.  "absent"   *)
(* names the sections whose key is missing from the dump.                   *)
(*   PlanCollections   : << [db, collections: << Collection >>] >>         *)
(*   Collection        : [cid, name, hasName, shardsKind, shards,          *)
(*                        distributeShardsLike ("" = not set), isSmart,    *)
(*                        indexes]                                         *)
(*   shards            : << [shard, servers] >>                            *)
(*   CurrentCollections: << [db, collections: << [cid, shards:             *)
(*                           << [shard, servers, failoverCandidates] >>] >>] >> *)

Sections == {"Plan.Coordinators", "Plan.Collections", "Plan.Databases",
             "Current.Collections", "Current.Coordinators", "Current.Databases",
             "Target.CleanedServers", "Supervision.Health"}

Has(d, section) == section \notin d.absent

\* currentCollections.hasOwnProperty(db)
HasCurrentDb(d, db) == \E e \in Range(d.CurrentCollections) : e.db = db

\* the entries currentCollections[db][cid][shard] (none when a lookup on the
\* way is undefined)
CurrentEntries(d, db, cid, shard) ==
  IF ~Has(d, "Current.Collections") THEN {}
  ELSE { s \in UNION { Range(c.shards) :
                        c \in { c2 \in UNION { Range(e.collections) :
                                               e \in { e2 \in Range(d.CurrentCollections) : e2.db = db } } :
                                c2.cid = cid } } :
         s.shard = shard }

HasCurrent(d, db, cid, shard) == CurrentEntries(d, db, cid, shard) # {}
CurrentOf(d, db, cid, shard) == CHOOSE s \in CurrentEntries(d, db, cid, shard) : TRUE

\* every (db, cid, col) of Plan.Collections in iteration order, with the
\* collection map it lives in
PlanCols(d) ==
  FlatMap(d.PlanCollections,
          LAMBDA e : [i \in 1..Len(e.collections) |->
                        [db |-> e.db, cid |-> e.collections[i].cid,
                         col |-> e.collections[i], collections |-> e.collections]])

\* collections.hasOwnProperty(cid)
HasCollection(collections, cid) == \E c \in Range(collections) : c.cid = cid

(* ---------------------------- extractFailed ---------------------------- *)
\* server.Endpoint.replace("ssl:", "https:") / replace("tcp:", "http:")
NormalizeEndpoint(ep) ==
  IF ep.scheme = "ssl" THEN [ep EXCEPT !.scheme = "https"]
  ELSE IF ep.scheme = "tcp" THEN [ep EXCEPT !.scheme = "http"]
  ELSE ep

extractFailed(d) ==
  IF ~Has(d, "Supervision.Health") THEN <<>>
  ELSE FlatMap(ServerOrder,
               LAMBDA s : IF d.Health[s] = "FAILED"
                          THEN << NormalizeEndpoint(Endpoint(s)) >> ELSE <<>>)

(* ------------------- helper.extractPrimaries / Databases ---------------- *)
\* the live-node set: the nodes whose Health entry has Status GOOD
extractPrimaries(d) ==
  IF ~Has(d, "Supervision.Health") THEN {}
  ELSE { s \in Servers : d.Health[s] = "GOOD" }

PlannedDbs(d) == IF Has(d, "Plan.Databases") THEN d.PlanDatabases ELSE {}
PlannedCols(d) == IF Has(d, "Plan.Collections") THEN PlanCols(d) ELSE <<>>

\* the aggregated database view: one record per Plan.Databases entry with the
\* names of its planned collections and its planned shards
extractDatabases(d) ==
  { [name |-> db,
     collections |-> { pcol.col.name : pcol \in { x \in Range(PlannedCols(d)) : x.db = db /\ x.col.hasName } },
     shards |-> UNION { { s.shard : s \in Range(pcol.col.shards) } :
                        pcol \in { x \in Range(PlannedCols(d)) : x.db = db /\ x.col.hasName } }]
    : db \in PlannedDbs(d) }

\* collections registered for a database that is no longer planned
extractZombies(d) ==
  SelectSeq(PlannedCols(d), LAMBDA pcol : pcol.col.hasName /\ pcol.db \notin PlannedDbs(d))

\* collection entries that carry neither a name nor an id
extractBroken(d) ==
  SelectSeq(PlannedCols(d), LAMBDA pcol : ~pcol.col.hasName)

(* --------------------------- zombieCoordinators ------------------------ *)
zombieCoordinatorsThrows(d) ==
  \/ ~Has(d, "Current.Coordinators")
  \/ (~Has(d, "Plan.Coordinators") /\ d.CurrentCoordinators # <<>>)

zombieCoordinators(d) ==
  SelectSeq(d.CurrentCoordinators, LAMBDA id : id \notin d.PlanCoordinators)

(* ----------------------- extractCollectionIntegrity -------------------- *)
extractCollectionIntegrityThrows(d) ==
  \/ ~Has(d, "Plan.Collections")
  \/ (~Has(d, "Plan.Databases") /\ d.PlanCollections # <<>>)

\* !shards || (Object.keys(shards).length === 0 && !isSmart) || shards.constructor !== Object
IntegrityNoShards(col) ==
  \/ col.shardsKind = "absent"
  \/ (Len(col.shards) = 0 /\ ~col.isSmart)
  \/ col.shardsKind # "object"

\* the collections the loop reaches past both `continue`s
IntegrityChecked(d) ==
  SelectSeq(PlanCols(d), LAMBDA pcol : pcol.db \in d.PlanDatabases /\ ~IntegrityNoShards(pcol.col))

noPlanDatabases(d) ==
  FlatMap(d.PlanCollections,
          LAMBDA e : IF e.db \notin d.PlanDatabases
                     THEN << [pushed |-> "db", db |-> e.db], [pushed |-> "collections", db |-> e.db] >>
                     ELSE <<>>)

noShardCollections(d) ==
  FlatMap(PlanCols(d),
          LAMBDA pcol : IF pcol.db \in d.PlanDatabases /\ IntegrityNoShards(pcol.col)
                      THEN << [db |-> pcol.db, name |-> pcol.cid] >> ELSE <<>>)

\* realLeaderMissing without the lookup of the prototype
realLeaderMissingAnyDistLike(d) ==
  FlatMap(IntegrityChecked(d),
          LAMBDA pcol : IF pcol.col.distributeShardsLike # ""
                      THEN << [db |-> pcol.db, name |-> pcol.cid,
                               distributeShardsLike |-> pcol.col.distributeShardsLike] >>
                      ELSE <<>>)

realLeaderMissing(d) ==
  FlatMap(IntegrityChecked(d),
          LAMBDA pcol : IF pcol.col.distributeShardsLike # ""
                         /\ ~HasCollection(pcol.collections, pcol.col.distributeShardsLike)
                      THEN << [db |-> pcol.db, name |-> pcol.cid,
                               distributeShardsLike |-> pcol.col.distributeShardsLike] >>
                      ELSE <<>>)


\* DeadRecords with the test on i dropped: every dead position lands in both lists
DeadRecordsAnyPosition(pcol, sh, primaries, leader) ==
  FlatMap([i \in 1..Len(sh.servers) |-> i],
          LAMBDA i : IF sh.servers[i] \notin primaries
                     THEN << [db |-> pcol.db, name |-> pcol.cid, shard |-> sh.shard,
                              server |-> sh.servers[i], servers |-> sh.servers] >>
                     ELSE <<>>)

\* the records pushed for one shard: position i (0-based) of servers is dead
DeadRecords(pcol, sh, primaries, leader) ==
  FlatMap([i \in 1..Len(sh.servers) |-> i],
          LAMBDA i : IF sh.servers[i] \notin primaries /\ ((i - 1 = 0) <=> leader)
                     THEN << [db |-> pcol.db, name |-> pcol.cid, shard |-> sh.shard,
                              server |-> sh.servers[i], servers |-> sh.servers] >>
                     ELSE <<>>)

leaderOnDeadServer(d, primaries) ==
  FlatMap(IntegrityChecked(d),
          LAMBDA pcol : FlatMap(pcol.col.shards, LAMBDA sh : DeadRecords(pcol, sh, primaries, TRUE)))

followerOnDeadServer(d, primaries) ==
  FlatMap(IntegrityChecked(d),
          LAMBDA pcol : FlatMap(pcol.col.shards, LAMBDA sh : DeadRecords(pcol, sh, primaries, FALSE)))

(* ----------------- extractCurrentDatabasesDeadPrimaries ----------------- *)
extractCurrentDatabasesDeadPrimaries(d, primaries) ==
  IF ~Has(d, "Current.Databases") THEN <<>>
  ELSE SelectSeq(d.CurrentDatabases, LAMBDA e : e.primary \notin primaries)

(* ----------------------- extractDistributionGroups --------------------- *)
\* s[0] of a JavaScript array
At0(s) == IF Len(s) > 0 THEN s[1] ELSE "undefined"

\* Array.prototype.sort((l, r) => l.shard > r.shard): the comparator answers
\* true/false, never a negative number, so the order is the engine's choice.
\* An insertion sort (short arrays, older V8) moves an element left past
\* every greater one; a merge sort that looks for `< 0` sees one ascending
\* run and leaves the array as it is.
InsertByShard(x, sorted) ==
  SelectSeq(sorted, LAMBDA y : ShardRank(y.shard) <= ShardRank(x.shard))
    \o << x >>
    \o SelectSeq(sorted, LAMBDA y : ShardRank(y.shard) > ShardRank(x.shard))

RECURSIVE InsertionSortByShard(_)
InsertionSortByShard(s) ==
  IF s = <<>> THEN <<>>
  ELSE InsertByShard(s[Len(s)], InsertionSortByShard(SubSeq(s, 1, Len(s) - 1)))

SortByShard(engine, s) == IF engine = "insertion" THEN InsertionSortByShard(s) ELSE s

\* !shards || Object.keys(shards).length === 0 || shards.constructor !== Object
DistNoShards(col) == col.shardsKind # "object" \/ Len(col.shards) = 0

\* distributeShardsLike || cid
Search(pcol) ==
  IF pcol.col.distributeShardsLike # "" THEN pcol.col.distributeShardsLike ELSE pcol.cid

\* the shards whose lookup in Current does not throw
Observed(d, pcol) ==
  SelectSeq(pcol.col.shards, LAMBDA sh : HasCurrent(d, pcol.db, pcol.cid, sh.shard))

CurServers(d, pcol, sh) == CurrentOf(d, pcol.db, pcol.cid, sh.shard).servers

\* comp[i] !== myPlan[i]: both are objects, compared by identity.  An entry
\* of myPlan is the object created at line 261 for (cid, shard), named by
\* its ref; past the end of myPlan the right-hand side is undefined.
DifferentObjects(comp, myPlan, i) ==
  IF i > Len(myPlan) THEN TRUE ELSE comp[i].ref # myPlan[i].ref

\* curServers[0] !== servers[0]
UnplannedLeader(servers, curServers) == At0(curServers) # At0(servers)

\* NoInsync without the test of the planned replication factor
NoInsyncAnyFactor(servers, curServers) == Len(curServers) <= 1

\* servers.length > 1 && curServers.length <= 1
NoInsync(servers, curServers) == Len(servers) > 1 /\ Len(curServers) <= 1

\* !info.primaries.hasOwnProperty(curServers[0])
DeadLeader(curServers, primaries) == At0(curServers) \notin primaries

\* Map.prototype.set on a group's plan and current maps
SetMember(members, cid, myPlan, myCurrent) ==
  IF \E m \in Range(members) : m.cid = cid
  THEN [i \in 1..Len(members) |->
          IF members[i].cid = cid
          THEN [cid |-> cid, plan |-> myPlan, current |-> myCurrent] ELSE members[i]]
  ELSE Append(members, [cid |-> cid, plan |-> myPlan, current |-> myCurrent])

GroupOf(shardGroups, search) == CHOOSE g \in Range(shardGroups) : g.search = search

\* Set.prototype.add of a string
AddKey(keys, k) == IF k \in Range(keys) THEN keys ELSE Append(keys, k)

\* one iteration of the loop over a database's collections (lines 236-291)
DistStep(d, primaries, acc, pcol) ==
  IF DistNoShards(pcol.col) THEN acc
  ELSE
    LET search == Search(pcol)
        isNewEntry == ~(\E g \in Range(acc.shardGroups) : g.search = search)
        obs == Observed(d, pcol)
        rec(sh) == [cid |-> pcol.cid, shard |-> sh.shard, search |-> search]
        myPlan == SortByShard(d.engine,
                    [i \in 1..Len(obs) |->
                       [ref |-> <<pcol.db, pcol.cid, obs[i].shard>>,
                        shard |-> obs[i].shard, servers |-> obs[i].servers]])
        myCurrent == SortByShard(d.engine,
                       [i \in 1..Len(obs) |->
                          [shard |-> obs[i].shard, servers |-> CurServers(d, pcol, obs[i])]])
        comp == GroupOf(acc.shardGroups, search).members[1].plan
        violated == ~isNewEntry /\ \E i \in 1..Len(comp) : DifferentObjects(comp, myPlan, i)
        groups == IF isNewEntry
                  THEN Append(acc.shardGroups, [search |-> search, db |-> pcol.db, members |-> <<>>])
                  ELSE acc.shardGroups
    IN [shardGroups |->
          [i \in 1..Len(groups) |->
             IF groups[i].search = search
             THEN [groups[i] EXCEPT !.members = SetMember(@, pcol.cid, myPlan, myCurrent)]
             ELSE groups[i]],
        violatedDistShardLike |->
          IF violated THEN AddKey(acc.violatedDistShardLike, search) ELSE acc.violatedDistShardLike,
        unplannedLeader |-> acc.unplannedLeader \o
          FlatMap(obs, LAMBDA sh : IF UnplannedLeader(sh.servers, CurServers(d, pcol, sh))
                                   THEN << rec(sh) >> ELSE <<>>),
        noInsyncFollower |-> acc.noInsyncFollower \o
          FlatMap(obs, LAMBDA sh : IF NoInsync(sh.servers, CurServers(d, pcol, sh))
                                   THEN << rec(sh) >> ELSE <<>>),
        noInsyncAndDeadLeader |-> acc.noInsyncAndDeadLeader \o
          FlatMap(obs, LAMBDA sh : IF NoInsync(sh.servers, CurServers(d, pcol, sh))
                                      /\ DeadLeader(CurServers(d, pcol, sh), primaries)
                                   THEN << rec(sh) >> ELSE <<>>)]

RECURSIVE DistFold(_, _, _, _)
DistFold(d, primaries, acc, pcols) ==
  IF pcols = <<>> THEN acc
  ELSE DistFold(d, primaries, DistStep(d, primaries, acc, Head(pcols)), Tail(pcols))

extractDistributionGroupsThrows(d) == ~Has(d, "Plan.Collections")

extractDistributionGroups(d, primaries) ==
  DistFold(d, primaries,
           [shardGroups |-> <<>>, violatedDistShardLike |-> <<>>, unplannedLeader |-> <<>>,
            noInsyncFollower |-> <<>>, noInsyncAndDeadLeader |-> <<>>],
           PlanCols(d))

(* --------------- extractEmptyDatabases / MissingCollections ------------ *)
extractEmptyDatabases(databases) ==
  { db \in databases : db.collections = {} /\ db.shards = {} }

\* c.name[0] === '_'
UnderscoreNames == Range(RequiredSystemCollections) \cup {"_users"}

MissingOf(database) ==
  SelectSeq(RequiredSystemCollections,
            LAMBDA n : n \notin (database.collections \cap UnderscoreNames))

extractMissingCollections(databases) ==
  { [database |-> db.name, missing |-> MissingOf(db)] :
      db \in { x \in databases : MissingOf(x) # <<>> } }

(* ----------------------- extractOutOfSyncFollowers ---------------------- *)

\* compareFollowers without the comparison of the leaders
compareFollowersNoLeader(plan, current) ==
  IF Len(plan) = 1 THEN TRUE
  ELSE \A i \in 2..Len(plan) : ~(IndexOf(current, plan[i]) < 1)

compareFollowers(plan, current) ==
  IF At0(plan) # At0(current) THEN FALSE
  ELSE IF Len(plan) = 1 THEN TRUE
  ELSE \A i \in 2..Len(plan) : ~(IndexOf(current, plan[i]) < 1)

extractOutOfSyncFollowersThrows(d) ==
  \/ ~Has(d, "Plan.Collections")
  \/ (~Has(d, "Current.Collections") /\ d.PlanCollections # <<>>)

\* !shards || Object.keys(shards).length === 0
OutOfSyncNoShards(col) == col.shardsKind = "absent" \/ Len(col.shards) = 0

\* the keys of an array are its positions, which name no shard of Current
OutOfSyncShards(col) == IF col.shardsKind = "object" THEN col.shards ELSE <<>>

extractOutOfSyncFollowers(d) ==
  FlatMap(SelectSeq(PlanCols(d),
                    LAMBDA pcol : HasCurrentDb(d, pcol.db) /\ ~OutOfSyncNoShards(pcol.col)),
          LAMBDA pcol :
            FlatMap(SelectSeq(OutOfSyncShards(pcol.col),
                              LAMBDA sh : HasCurrent(d, pcol.db, pcol.cid, sh.shard)),
                    LAMBDA sh :
                      IF ~compareFollowers(sh.servers, CurServers(d, pcol, sh))
                      THEN << [db |-> pcol.db, name |-> pcol.cid, shard |-> sh.shard,
                               servers |-> sh.servers,
                               current |-> CurServers(d, pcol, sh)] >>
                      ELSE <<>>))

(* -------------------- extractCleanedFailoverCandidates ----------------- *)
\* _.intersectionWith(a, b) with no comparator: the distinct values of a that
\* occur in b, in a's order
RECURSIVE Uniq(_)
Uniq(s) ==
  IF s = <<>> THEN <<>>
  ELSE LET r == Uniq(SubSeq(s, 1, Len(s) - 1))
       IN IF s[Len(s)] \in Range(r) THEN r ELSE Append(r, s[Len(s)])

Intersection(a, b) == Uniq(SelectSeq(a, LAMBDA x : x \in Range(b)))


\* _.difference with its result left as the first list
DifferenceKeepsAll(a, b) == a

\* _.difference(a, b): the values of a not in b, in a's order
Difference(a, b) == SelectSeq(a, LAMBDA x : x \notin Range(b))

CleanedServersOf(d) == IF Has(d, "Target.CleanedServers") THEN d.CleanedServers ELSE <<>>

\* every shard of Current.Collections with its database and collection
CurrentShards(d) ==
  FlatMap(d.CurrentCollections,
          LAMBDA e : FlatMap(e.collections,
                             LAMBDA c : [i \in 1..Len(c.shards) |->
                                           [db |-> e.db, cid |-> c.cid, sh |-> c.shards[i]]]))

\* "arango/Current/Collections/<db>/<col>/<shard>/failoverCandidates"
FailoverPath(db, cid, shard) ==
  <<"arango", "Current", "Collections", db, cid, shard, "failoverCandidates">>

extractCleanedFailoverCandidatesThrows(d) == ~Has(d, "Current.Collections")

FixOf(d, cs) ==
  LET inter == Intersection(CleanedServersOf(d), cs.sh.failoverCandidates)
      left == Difference(cs.sh.failoverCandidates, inter)
  IN IF Len(inter) > 0
     THEN << [path |-> FailoverPath(cs.db, cs.cid, cs.sh.shard),
              value |-> << left, cs.sh.failoverCandidates >>] >>
     ELSE <<>>

extractCleanedFailoverCandidates(d) ==
  FlatMap(CurrentShards(d), LAMBDA cs : FixOf(d, cs))

(* ------------------------ extractBrokenEdgeIndexes --------------------- *)
GoodFrom ==
  [id |-> "1", type |-> "edge", name |-> "edge", fields |-> <<"_from">>,
   unique |-> FALSE, sparse |-> FALSE]
GoodTo ==
  [id |-> "2", type |-> "edge", name |-> "edge", fields |-> <<"_to">>,
   unique |-> FALSE, sparse |-> FALSE]

\* the test of lines 827-830 on one index record
IsBrokenEdgeIndex(index) ==
  index.type = "edge" /\ index.name = "edge" /\ index.id = "1" /\ Len(index.fields) > 1

EdgeFailed(indexes) == \E index \in Range(indexes) : IsBrokenEdgeIndex(index)


\* Replacement that passes the index with id "1" on as it is
ReplacementKeepsFirst(index) ==
  IF index.id # "2" THEN << index >> ELSE <<>>

\* Replacement that passes an index with id "2" on
ReplacementKeepsSecond(index) ==
  IF index.id = "1" THEN << GoodFrom, GoodTo >> ELSE << index >>

\* what one index record contributes to newIndexes (lines 834-853)
Replacement(index) ==
  IF index.id = "1" THEN << GoodFrom, GoodTo >>
  ELSE IF index.id # "2" THEN << index >>
  ELSE <<>>

NewIndexes(indexes) == FlatMap(indexes, LAMBDA index : Replacement(index))

extractBrokenEdgeIndexesThrows(d) == ~Has(d, "Plan.Collections")

\* the findings of one index list: none or one
EdgeFindings(db, cid, indexes) ==
  IF Len(indexes) = 0 THEN <<>>
  ELSE IF EdgeFailed(indexes)
  THEN << [path |-> <<"Plan", "Collections", db, cid, "indexes">>,
           bad |-> indexes, good |-> NewIndexes(indexes)] >>
  ELSE <<>>

extractBrokenEdgeIndexes(d) ==
  FlatMap(PlanCols(d), LAMBDA pcol : EdgeFindings(pcol.db, pcol.cid, pcol.col.indexes))

(* ------------------------------ the reporter --------------------------- *)
printZombies(inf) == 0 < Len(inf.zombies)
printZombieCoordinators(inf) == Len(inf.zombieCoordinators) > 0
printCleanedFailoverCandidates(inf) == 0 < Len(inf.correctFailoverCandidates)
printBroken(inf) == 0 < Len(inf.broken)
printCollectionIntegrity(inf) ==
  \/ Len(inf.noPlanDatabases) > 0
  \/ Len(inf.noShardCollections) > 0
  \/ Len(inf.realLeaderMissing) > 0
  \/ Len(inf.leaderOnDeadServer) > 0
  \/ Len(inf.followerOnDeadServer) > 0
printCurrentDatabasesDeadPrimaries(inf) == 0 < Len(inf.databasesDeadPrimaries)
\* printEmptyDatabases with the comparison including zero
printEmptyDatabasesFromZero(inf) == 0 <= Cardinality(inf.emptyDatabases)
printEmptyDatabases(inf) == 0 < Cardinality(inf.emptyDatabases)
printMissingCollections(inf) == Cardinality(inf.missingCollections) > 0
printOutOfSyncFollowers(inf) == Len(inf.outOfSyncFollowers) > 0

\* counters.set(key, (counters.get(key) || 0) + 1) on a Map kept in insertion order
Bump(counters, key) ==
  IF \E i \in 1..Len(counters) : counters[i].server = key
  THEN [i \in 1..Len(counters) |->
          IF counters[i].server = key
          THEN [counters[i] EXCEPT !.number = @ + 1] ELSE counters[i]]
  ELSE Append(counters, [server |-> key, number |-> 1])

\* the rows of 'Number of non-replicated shards per server': one bump per
\* record, keyed by oosFollower.servers[0]
RECURSIVE OutOfSyncCounters(_)
OutOfSyncCounters(oos) ==
  IF oos = <<>> THEN <<>>
  ELSE Bump(OutOfSyncCounters(SubSeq(oos, 1, Len(oos) - 1)), At0(oos[Len(oos)].servers))
printDistributionGroups(inf) == Len(inf.noInsyncAndDeadLeader) > 0
printBrokenEdgeIndexes(inf) == Len(inf.brokenEdgeIndexes) > 0

\* lines 908-930: infected = print...(info) || infected, for every reporter
\* (printPrimaries, printDatabases, printCollections and printPrimaryShards
\* never answer true)
Reported(inf) ==
  \/ printZombies(inf)
  \/ printZombieCoordinators(inf)
  \/ printCleanedFailoverCandidates(inf)
  \/ printBroken(inf)
  \/ printCollectionIntegrity(inf)
  \/ printCurrentDatabasesDeadPrimaries(inf)
  \/ printEmptyDatabases(inf)
  \/ printMissingCollections(inf)
  \/ printOutOfSyncFollowers(inf)
  \/ printDistributionGroups(inf)
  \/ printBrokenEdgeIndexes(inf)

(* ------------------------------ the exporter --------------------------- *)
FileNames == {"collectionIntegrity.json", "zombies.json", "zombie-coordinators.json",
              "dead-primaries.json", "forceFailover.json", "skeleton-databases.json",
              "missing-collections.json", "cleaned-failovers.json",
              "broken-edge-indexes.json", "zombie-callbacks.json"}

\* myPlan.findIndex(s => s.shard === shard), 1-based; 0 when there is none
FindShard(plan, shard) ==
  IF \E i \in 1..Len(plan) : plan[i].shard = shard
  THEN CHOOSE i \in 1..Len(plan) : plan[i].shard = shard /\ \A j \in 1..(i-1) : plan[j].shard # shard
  ELSE 0

MemberPlan(group, cid) == (CHOOSE m \in Range(group.members) : m.cid = cid).plan

\* the position saveDistributionGroups reads in every member's current list
ShardIndexOf(inf, rec) ==
  FindShard(MemberPlan(GroupOf(inf.shardGroups, rec.search), rec.cid), rec.shard)

\* const { shard, servers } = curServers[shardIndex] of an undefined entry
saveDistributionGroupsThrows(inf) ==
  \E rec \in Range(inf.noInsyncAndDeadLeader) :
    \/ ShardIndexOf(inf, rec) = 0
    \/ \E m \in Range(GroupOf(inf.shardGroups, rec.search).members) :
         Len(m.current) < ShardIndexOf(inf, rec)

\* the record whose sibling has no entry at shardIndex stops the loop
RecordThrows(inf, rec) ==
  \/ ShardIndexOf(inf, rec) = 0
  \/ \E m \in Range(GroupOf(inf.shardGroups, rec.search).members) :
       Len(m.current) < ShardIndexOf(inf, rec)

\* candidates: the live servers of the planned list, each with the shards at
\* shardIndex of the group's members that list it among their servers
Candidates(inf, rec) ==
  LET group == GroupOf(inf.shardGroups, rec.search)
      shardIndex == ShardIndexOf(inf, rec)
      planned == MemberPlan(group, rec.cid)[shardIndex].servers
      live == SelectSeq(planned, LAMBDA s : s \in inf.primaries)
      insync(c) == FlatMap(group.members,
                           LAMBDA m : IF c \in Range(m.current[shardIndex].servers)
                                      THEN << m.current[shardIndex].shard >> ELSE <<>>)
  IN [i \in 1..Len(live) |-> [server |-> live[i], insync |-> insync(live[i])]]

\* [...candidates.entries()].sort((l, r) => l[1].length > r[1].length): the
\* comparator answers true/false, so as for SortByShard an insertion sort
\* moves an entry left past every longer one and a merge sort moves nothing
InsertByCount(x, sorted) ==
  SelectSeq(sorted, LAMBDA y : Len(y.insync) <= Len(x.insync))
    \o << x >>
    \o SelectSeq(sorted, LAMBDA y : Len(y.insync) > Len(x.insync))

RECURSIVE InsertionSortByCount(_)
InsertionSortByCount(s) ==
  IF s = <<>> THEN <<>>
  ELSE InsertByCount(s[Len(s)], InsertionSortByCount(SubSeq(s, 1, Len(s) - 1)))

SortedCandidates(engine, inf, rec) ==
  IF engine = "insertion" THEN InsertionSortByCount(Candidates(inf, rec))
  ELSE Candidates(inf, rec)

\* the lists 'potential failover candidates, first has most in sync' printed
\* for the records the loop gets through
RECURSIVE PrintedCandidates(_, _, _)
PrintedCandidates(engine, inf, recs) ==
  IF recs = <<>> THEN <<>>
  ELSE IF RecordThrows(inf, Head(recs)) THEN <<>>
  ELSE << [rec |-> Head(recs), candidates |-> SortedCandidates(engine, inf, Head(recs))] >>
         \o PrintedCandidates(engine, inf, Tail(recs))

\* clonedGroups: the groups of the records, by search key
ClonedGroups(inf) ==
  SelectSeq(inf.shardGroups,
            LAMBDA g : \E rec \in Range(inf.noInsyncAndDeadLeader) : rec.search = g.search)

\* url.slice(0, end): scheme and authority of the callback's URL
UrlPrefix(url) == [scheme |-> url.scheme, hostport |-> url.hostport]

ZombieCallbacks(d, inf) ==
  IF Len(inf.failedInstances) > 0 /\ d.hasStores
  THEN SelectSeq(d.callbacks, LAMBDA url : UrlPrefix(url) \in Range(inf.failedInstances))
  ELSE <<>>

(* ------------------------- the dumps of the model ---------------------- *)
Col(cid, name, shards, dsl) ==
  [cid |-> cid, name |-> name, hasName |-> TRUE, shardsKind |-> "object", shards |-> shards,
   distributeShardsLike |-> dsl, isSmart |-> FALSE, indexes |-> <<>>]

Shard(shard, servers) == [shard |-> shard, servers |-> servers]
CurShard(shard, servers, candidates) ==
  [shard |-> shard, servers |-> servers, failoverCandidates |-> candidates]

SystemCids == <<"1", "2", "3", "4", "5", "6">>
SystemShards == <<"s91", "s92", "s93", "s94", "s95", "s96">>

\* the six system collections, one shard each, led by A and in sync
SystemCols ==
  [i \in 1..Len(RequiredSystemCollections) |->
     Col(SystemCids[i], RequiredSystemCollections[i], << Shard(SystemShards[i], <<"A">>) >>, "")]
SystemCurrent ==
  [i \in 1..Len(RequiredSystemCollections) |->
     [cid |-> SystemCids[i], shards |-> << CurShard(SystemShards[i], <<"A">>, <<"A">>) >>]]

AllGood == [s \in Servers |-> "GOOD"]

\* a cluster with nothing planned and nothing observed
EmptyCluster ==
  [absent |-> {}, engine |-> "insertion",
   PlanDatabases |-> {}, PlanCollections |-> <<>>, PlanCoordinators |-> {},
   CurrentCoordinators |-> <<>>, CurrentDatabases |-> <<>>, CurrentCollections |-> <<>>,
   Health |-> AllGood, CleanedServers |-> <<>>, hasStores |-> FALSE, callbacks |-> <<>>]

\* one database d1 holding `cols` (observed as `cur`) after its system collections
Cluster(cols, cur) ==
  [EmptyCluster EXCEPT
     !.PlanDatabases = {"d1"},
     !.PlanCollections = << [db |-> "d1", collections |-> SystemCols \o cols] >>,
     !.PlanCoordinators = {"K1"},
     !.CurrentCoordinators = <<"K1">>,
     !.CurrentDatabases = << [database |-> "d1", primary |-> "A"] >>,
     !.CurrentCollections = << [db |-> "d1", collections |-> SystemCurrent \o cur] >>]

\* the same without the system collections
BareCluster(cols, cur) ==
  [Cluster(cols, cur) EXCEPT
     !.PlanCollections = << [db |-> "d1", collections |-> cols] >>,
     !.CurrentCollections = << [db |-> "d1", collections |-> cur] >>]

CallbackA == [scheme |-> "http", hostport |-> "//a:8529", path |-> "/_api/agency/cb"]
CallbackB == [scheme |-> "https", hostport |-> "//b:8529", path |-> "/_api/agency/cb"]
CallbackRaw == [scheme |-> "ssl", hostport |-> "//b:8529", path |-> "/_api/agency/cb"]

\* coordinators, health, callbacks and Current.Databases of an otherwise
\* healthy or empty cluster
ClusterDumps ==
  { [base EXCEPT
       !.Health = [s \in Servers |-> IF s = "C" THEN "GOOD" ELSE h[s]],
       !.PlanCoordinators = pk,
       !.CurrentCoordinators = ck,
       !.CurrentDatabases = cdb,
       !.hasStores = cb.stores,
       !.callbacks = cb.list] :
      base \in {EmptyCluster, Cluster(<<>>, <<>>)},
      h \in [{"A", "B"} -> {"GOOD", "FAILED", "NONE"}],
      pk \in SUBSET {"K1"},
      ck \in {<<>>, <<"K1">>, <<"K1", "K2">>},
      cdb \in {<<>>, << [database |-> "d1", primary |-> "A"], [database |-> "d1", primary |-> "B"] >>},
      cb \in {[stores |-> FALSE, list |-> <<>>], [stores |-> TRUE, list |-> <<>>],
              [stores |-> TRUE, list |-> <<CallbackA>>],
              [stores |-> TRUE, list |-> <<CallbackRaw, CallbackB>>]} }

\* a section of the dump is missing
AbsentDumps ==
  { [base EXCEPT !.absent = {section}] :
      base \in {EmptyCluster, Cluster(<<>>, <<>>),
                [Cluster(<<>>, <<>>) EXCEPT !.CleanedServers = <<"A">>]},
      section \in Sections }

\* one collection with one shard: its planned servers, its entry in Current
\* (none, or the observed servers), the live servers, the database planned or not
ShardDumps ==
  { [Cluster(<< Col("10", "c", << Shard("s1", plan) >>, "") >>,
             IF cur.present
             THEN << [cid |-> "10", shards |-> << CurShard("s1", cur.servers, cur.servers) >>] >>
             ELSE <<>>)
       EXCEPT !.Health = h, !.PlanDatabases = pdb] :
      plan \in ServerLists(1, MaxLen),
      cur \in {[present |-> FALSE, servers |-> <<>>]}
                \cup { [present |-> TRUE, servers |-> c] : c \in ServerLists(0, MaxLen) },
      h \in [Servers -> {"GOOD", "FAILED"}],
      pdb \in {{"d1"}, {}} }

\* failoverCandidates of a shard against Target.CleanedServers
FailoverDumps ==
  { [Cluster(<< Col("10", "c", << Shard("s1", <<"A">>) >>, "") >>,
             << [cid |-> "10", shards |-> << CurShard("s1", <<"A">>, candidates) >>] >>)
       EXCEPT !.CleanedServers = cleaned] :
      candidates \in SeqsOver(Servers, 0, MaxLen),
      cleaned \in SeqsOver(Servers, 0, MaxLen) }

Index(id, type, fields) ==
  [id |-> id, type |-> type, name |-> type, fields |-> fields, unique |-> FALSE, sparse |-> FALSE]

IndexRecords ==
  { Index("0", "primary", <<"_key">>),
    Index("1", "edge", <<"_from", "_to">>),
    Index("1", "edge", <<"_from">>),
    Index("2", "edge", <<"_to">>),
    Index("2", "edge", <<"_to", "_from">>),
    Index("1", "hash", <<"a", "b">>),
    Index("7", "hash", <<"a", "b">>) }

\* the index list of an edge collection
EdgeDumps ==
  { Cluster(<< [Col("10", "e", << Shard("s1", <<"A">>) >>, "") EXCEPT !.indexes = indexes] >>,
            << [cid |-> "10", shards |-> << CurShard("s1", <<"A">>, <<"A">>) >>] >>) :
      indexes \in SeqsOver(IndexRecords, 0, MaxIdx) }

\* a collection without usable shards, smart or not, named or not
MalformedDumps ==
  { [BareCluster(<< [Col("10", "c", <<>>, dsl) EXCEPT
                       !.shardsKind = kind, !.isSmart = smart, !.hasName = named] >>, <<>>)
       EXCEPT !.PlanDatabases = pdb] :
      kind \in {"absent", "object", "array"}, smart \in BOOLEAN, named \in BOOLEAN,
      dsl \in {"", "99"}, pdb \in {{"d1"}, {}} }

GroupPlans == {<<"A", "B">>, <<"B", "A">>}
GroupObserved == {[present |-> FALSE, servers |-> <<>>], [present |-> TRUE, servers |-> <<"A">>],
                  [present |-> TRUE, servers |-> <<"A", "B">>]}

GroupCur(cid, o1, o2) ==
  [cid |-> cid,
   shards |-> (IF o2.present THEN << CurShard("s2", o2.servers, o2.servers) >> ELSE <<>>)
              \o (IF o1.present THEN << CurShard("s1", o1.servers, o1.servers) >> ELSE <<>>)]

\* two collections of two shards each (s2 listed before s1), the second one
\* distributed like the first, like a missing collection, or on its own
GroupDumps ==
  { [Cluster(<< Col("10", "c", << Shard("s2", <<"A", "B">>), Shard("s1", p1) >>, ""),
                Col("11", "f", << Shard("s2", <<"A", "B">>), Shard("s1", q1) >>, dsl) >>,
             << GroupCur("10", o1, o2), GroupCur("11", r1, r2) >>)
       EXCEPT !.Health = [AllGood EXCEPT !["A"] = ha], !.engine = engine] :
      p1 \in GroupPlans, q1 \in GroupPlans, dsl \in {"", "10", "99"},
      o1 \in GroupObserved, o2 \in GroupObserved, r1 \in GroupObserved, r2 \in GroupObserved,
      ha \in {"GOOD", "FAILED"}, engine \in {"insertion", "merge"} }

\* every section present and empty, with or without pending callbacks
EmptySnapshots ==
  { [EmptyCluster EXCEPT !.Health = [s \in Servers |-> "NONE"],
                         !.hasStores = cb.stores, !.callbacks = cb.list] :
      cb \in {[stores |-> FALSE, list |-> <<>>], [stores |-> TRUE, list |-> <<CallbackA>>]} }

\* a shard planned on A and B whose observed leader is gone, and a sibling
\* collection of the same group observed on some of the servers
CandidateDumps ==
  { [Cluster(<< Col("10", "c", << Shard("s1", plan) >>, ""),
                Col("11", "f", << Shard("s1", plan) >>, "10") >>,
             << [cid |-> "10", shards |-> << CurShard("s1", own, own) >>],
                [cid |-> "11", shards |-> << CurShard("s1", sibling, sibling) >>] >>)
       EXCEPT !.Health = [AllGood EXCEPT !["C"] = "FAILED"], !.engine = engine] :
      plan \in GroupPlans, own \in {<<>>, <<"C">>}, sibling \in ServerLists(0, MaxLen),
      engine \in {"insertion", "merge"} }

Dumps == ClusterDumps \cup AbsentDumps \cup ShardDumps \cup FailoverDumps
           \cup EdgeDumps \cup MalformedDumps \cup GroupDumps
           \cup EmptySnapshots \cup CandidateDumps

\* the condition under which each save step calls fs.write
Wanted(d, inf) ==
  [n \in FileNames |->
     CASE n = "collectionIntegrity.json" -> printCollectionIntegrity(inf)
       [] n = "zombies.json" -> Len(inf.zombies) > 0
       [] n = "zombie-coordinators.json" -> Len(inf.zombieCoordinators) > 0
       [] n = "dead-primaries.json" -> Len(inf.databasesDeadPrimaries) > 0
       [] n = "forceFailover.json" -> Len(inf.noInsyncAndDeadLeader) > 0
       [] n = "skeleton-databases.json" -> Cardinality(inf.emptyDatabases) > 0
       [] n = "missing-collections.json" -> Cardinality(inf.missingCollections) > 0
       [] n = "cleaned-failovers.json" -> 0 < Len(inf.correctFailoverCandidates)
       [] n = "broken-edge-indexes.json" -> Len(inf.brokenEdgeIndexes) > 0
       [] n = "zombie-callbacks.json" -> Len(ZombieCallbacks(d, inf)) > 0]

(* --------------------------------- the run ----------------------------- *)
\* the statements of exports.run (lines 895-948) in program order
Steps ==
  << "extractFailed", "extractPrimaries", "extractDatabases", "zombieCoordinators",
     "extractCollectionIntegrity", "extractCurrentDatabasesDeadPrimaries",
     "extractDistributionGroups", "extractEmptyDatabases", "extractMissingCollections",
     "extractOutOfSyncFollowers", "extractCleanedFailoverCandidates",
     "extractBrokenEdgeIndexes", "report",
     "saveCollectionIntegrity", "saveZombies", "saveZombieCoords",
     "saveCurrentDatabasesDeadPrimaries", "saveDistributionGroups", "saveEmptyDatabases",
     "saveMissingCollections", "saveCleanedFailoverCandidates", "saveBrokenEdgeIndexes",
     "printClean", "saveZombieCallbacks", "done" >>

StepNo(step) == IndexOf(Steps, step) + 1

\* the statement `step` has completed (an aborted run stays where it threw)
Completed(step) == StepNo(pc.at) > StepNo(step)

EmptyInfo ==
  [failedInstances |-> <<>>, primaries |-> {}, databases |-> {}, zombies |-> <<>>,
   broken |-> <<>>, zombieCoordinators |-> <<>>,
   noPlanDatabases |-> <<>>, noShardCollections |-> <<>>, realLeaderMissing |-> <<>>,
   leaderOnDeadServer |-> <<>>, followerOnDeadServer |-> <<>>,
   databasesDeadPrimaries |-> <<>>,
   shardGroups |-> <<>>, violatedDistShardLike |-> <<>>, noInsyncFollower |-> <<>>,
   unplannedLeader |-> <<>>, noInsyncAndDeadLeader |-> <<>>,
   emptyDatabases |-> {}, missingCollections |-> {}, outOfSyncFollowers |-> <<>>,
   correctFailoverCandidates |-> <<>>, brokenEdgeIndexes |-> <<>>]

\* status: none (fs.write not called), written, failed (fs.write threw);
\* holds: the fields of info the file serializes
NoFile == [status |-> "none", holds |-> {}, content |-> <<>>]

\* counters: the rows of the per-server table of printOutOfSyncFollowers;
\* candidates: the rankings printed by saveDistributionGroups
NothingPrinted == [counters |-> <<>>, candidates |-> <<>>]

Init ==
  /\ dump \in Dumps
  /\ info = EmptyInfo
  /\ pc = [at |-> "extractFailed", aborted |-> FALSE]
  /\ infected = FALSE
  /\ files = [n \in FileNames |-> NoFile]
  /\ clean = FALSE
  /\ printed = NothingPrinted

At(step) == pc.at = step /\ ~pc.aborted
Goto(step) == pc' = [at |-> step, aborted |-> FALSE]
\* an exception leaves exports.run: nothing after the statement runs
Abort == pc' = [pc EXCEPT !.aborted = TRUE]

\* an analyzer: it throws, or it stores its findings and the next one runs
Analyze(step, next, throws, result) ==
  /\ At(step)
  /\ IF throws
     THEN Abort /\ UNCHANGED info
     ELSE Goto(next) /\ info' = result
  /\ UNCHANGED <<dump, infected, files, clean, printed>>

DoExtractFailed ==
  Analyze("extractFailed", "extractPrimaries", FALSE,
          [info EXCEPT !.failedInstances = extractFailed(dump)])

DoExtractPrimaries ==
  Analyze("extractPrimaries", "extractDatabases", FALSE,
          [info EXCEPT !.primaries = extractPrimaries(dump)])

DoExtractDatabases ==
  Analyze("extractDatabases", "zombieCoordinators", FALSE,
          [info EXCEPT !.databases = extractDatabases(dump),
                       !.zombies = extractZombies(dump),
                       !.broken = extractBroken(dump)])

DoZombieCoordinators ==
  Analyze("zombieCoordinators", "extractCollectionIntegrity", zombieCoordinatorsThrows(dump),
          [info EXCEPT !.zombieCoordinators = zombieCoordinators(dump)])

DoExtractCollectionIntegrity ==
  Analyze("extractCollectionIntegrity", "extractCurrentDatabasesDeadPrimaries",
          extractCollectionIntegrityThrows(dump),
          [info EXCEPT !.noPlanDatabases = noPlanDatabases(dump),
                       !.noShardCollections = noShardCollections(dump),
                       !.realLeaderMissing = realLeaderMissing(dump),
                       !.leaderOnDeadServer = leaderOnDeadServer(dump, info.primaries),
                       !.followerOnDeadServer = followerOnDeadServer(dump, info.primaries)])

DoExtractCurrentDatabasesDeadPrimaries ==
  Analyze("extractCurrentDatabasesDeadPrimaries", "extractDistributionGroups", FALSE,
          [info EXCEPT !.databasesDeadPrimaries =
                          extractCurrentDatabasesDeadPrimaries(dump, info.primaries)])

DoExtractDistributionGroups ==
  Analyze("extractDistributionGroups", "extractEmptyDatabases",
          extractDistributionGroupsThrows(dump),
          LET r == extractDistributionGroups(dump, info.primaries)
          IN [info EXCEPT !.shardGroups = r.shardGroups,
                          !.violatedDistShardLike = r.violatedDistShardLike,
                          !.noInsyncFollower = r.noInsyncFollower,
                          !.unplannedLeader = r.unplannedLeader,
                          !.noInsyncAndDeadLeader = r.noInsyncAndDeadLeader])

DoExtractEmptyDatabases ==
  Analyze("extractEmptyDatabases", "extractMissingCollections", FALSE,
          [info EXCEPT !.emptyDatabases = extractEmptyDatabases(info.databases)])

DoExtractMissingCollections ==
  Analyze("extractMissingCollections", "extractOutOfSyncFollowers", FALSE,
          [info EXCEPT !.missingCollections = extractMissingCollections(info.databases)])

DoExtractOutOfSyncFollowers ==
  Analyze("extractOutOfSyncFollowers", "extractCleanedFailoverCandidates",
          extractOutOfSyncFollowersThrows(dump),
          [info EXCEPT !.outOfSyncFollowers = extractOutOfSyncFollowers(dump)])

DoExtractCleanedFailoverCandidates ==
  Analyze("extractCleanedFailoverCandidates", "extractBrokenEdgeIndexes",
          extractCleanedFailoverCandidatesThrows(dump),
          [info EXCEPT !.correctFailoverCandidates = extractCleanedFailoverCandidates(dump)])

DoExtractBrokenEdgeIndexes ==
  Analyze("extractBrokenEdgeIndexes", "report", extractBrokenEdgeIndexesThrows(dump),
          [info EXCEPT !.brokenEdgeIndexes = extractBrokenEdgeIndexes(dump)])

\* lines 908-933: the reporters, then the branch on infected
DoReport ==
  /\ At("report")
  /\ infected' = Reported(info)
  /\ printed' = [printed EXCEPT !.counters = OutOfSyncCounters(info.outOfSyncFollowers)]
  /\ Goto(IF Reported(info) THEN "saveCollectionIntegrity" ELSE "printClean")
  /\ UNCHANGED <<dump, info, files, clean>>

\* line 945: printGood('Did not detect any issues in your cluster')
DoPrintClean ==
  /\ At("printClean")
  /\ clean' = TRUE
  /\ Goto("saveZombieCallbacks")
  /\ UNCHANGED <<dump, info, infected, files, printed>>

\* a save step: when its finding is there it calls fs.write, which writes the
\* file or throws; a throw (of fs.write, or of the step before it gets there)
\* leaves the run
Save(step, next, throws, name, holds, content, prints) ==
  /\ At(step)
  /\ printed' = prints
  /\ IF throws
     THEN Abort /\ UNCHANGED files
     ELSE IF ~Wanted(dump, info)[name]
     THEN Goto(next) /\ UNCHANGED files
     ELSE \E ok \in BOOLEAN :
            IF ok
            THEN Goto(next) /\ files' = [files EXCEPT ![name] =
                                         [status |-> "written", holds |-> holds, content |-> content]]
            ELSE Abort /\ files' = [files EXCEPT ![name] = [NoFile EXCEPT !.status = "failed"]]
  /\ UNCHANGED <<dump, info, infected, clean>>

DoSaveCollectionIntegrity ==
  Save("saveCollectionIntegrity", "saveZombies", FALSE,
       "collectionIntegrity.json",
       {"noPlanDatabases", "noShardCollections", "realLeaderMissing", "leaderOnDeadServer",
        "followerOnDeadServer"},
       [noPlanDatabases |-> info.noPlanDatabases,
        noShardCollections |-> info.noShardCollections,
        realLeaderMissing |-> info.realLeaderMissing,
        leaderOnDeadServer |-> info.leaderOnDeadServer,
        followerOnDeadServer |-> info.followerOnDeadServer],
       printed)

DoSaveZombies ==
  Save("saveZombies", "saveZombieCoords", FALSE,
       "zombies.json", {"zombies"}, info.zombies,
       printed)

DoSaveZombieCoords ==
  Save("saveZombieCoords", "saveCurrentDatabasesDeadPrimaries", FALSE,
       "zombie-coordinators.json",
       {"zombieCoordinators"}, info.zombieCoordinators,
       printed)

DoSaveCurrentDatabasesDeadPrimaries ==
  Save("saveCurrentDatabasesDeadPrimaries", "saveDistributionGroups", FALSE,
       "dead-primaries.json",
       {"databasesDeadPrimaries"}, info.databasesDeadPrimaries,
       printed)

DoSaveDistributionGroups ==
  Save("saveDistributionGroups", "saveEmptyDatabases", saveDistributionGroupsThrows(info),
       "forceFailover.json", {"shardGroups"},
       ClonedGroups(info),
       [printed EXCEPT !.candidates =
          PrintedCandidates(dump.engine, info, info.noInsyncAndDeadLeader)])

DoSaveEmptyDatabases ==
  Save("saveEmptyDatabases", "saveMissingCollections", FALSE,
       "skeleton-databases.json",
       {"emptyDatabases"}, info.emptyDatabases,
       printed)

DoSaveMissingCollections ==
  Save("saveMissingCollections", "saveCleanedFailoverCandidates", FALSE,
       "missing-collections.json",
       {"missingCollections"}, info.missingCollections,
       printed)

DoSaveCleanedFailoverCandidates ==
  Save("saveCleanedFailoverCandidates", "saveBrokenEdgeIndexes", FALSE,
       "cleaned-failovers.json",
       {"correctFailoverCandidates"}, info.correctFailoverCandidates,
       printed)

DoSaveBrokenEdgeIndexes ==
  Save("saveBrokenEdgeIndexes", "saveZombieCallbacks", FALSE,
       "broken-edge-indexes.json",
       {"brokenEdgeIndexes"}, info.brokenEdgeIndexes,
       printed)

\* line 948: outside the branch on infected
DoSaveZombieCallbacks ==
  Save("saveZombieCallbacks", "done", FALSE,
       "zombie-callbacks.json", {"zombieCallbacks"}, ZombieCallbacks(dump, info),
       printed)

Next ==
  \/ DoExtractFailed
  \/ DoExtractPrimaries
  \/ DoExtractDatabases
  \/ DoZombieCoordinators
  \/ DoExtractCollectionIntegrity
  \/ DoExtractCurrentDatabasesDeadPrimaries
  \/ DoExtractDistributionGroups
  \/ DoExtractEmptyDatabases
  \/ DoExtractMissingCollections
  \/ DoExtractOutOfSyncFollowers
  \/ DoExtractCleanedFailoverCandidates
  \/ DoExtractBrokenEdgeIndexes
  \/ DoReport
  \/ DoPrintClean
  \/ DoSaveCollectionIntegrity
  \/ DoSaveZombies
  \/ DoSaveZombieCoords
  \/ DoSaveCurrentDatabasesDeadPrimaries
  \/ DoSaveDistributionGroups
  \/ DoSaveEmptyDatabases
  \/ DoSaveMissingCollections
  \/ DoSaveCleanedFailoverCandidates
  \/ DoSaveBrokenEdgeIndexes
  \/ DoSaveZombieCallbacks

Spec == Init /\ [][Next]_vars

(* ================================ claims ================================ *)
\* the size of every finding collection of info
FindingCounts(inf) ==
  [zombieCoordinators |-> Len(inf.zombieCoordinators),
   correctFailoverCandidates |-> Len(inf.correctFailoverCandidates),
   noPlanDatabases |-> Len(inf.noPlanDatabases),
   noShardCollections |-> Len(inf.noShardCollections),
   realLeaderMissing |-> Len(inf.realLeaderMissing),
   leaderOnDeadServer |-> Len(inf.leaderOnDeadServer),
   followerOnDeadServer |-> Len(inf.followerOnDeadServer),
   databasesDeadPrimaries |-> Len(inf.databasesDeadPrimaries),
   emptyDatabases |-> Cardinality(inf.emptyDatabases),
   missingCollections |-> Cardinality(inf.missingCollections),
   outOfSyncFollowers |-> Len(inf.outOfSyncFollowers),
   violatedDistShardLike |-> Len(inf.violatedDistShardLike),
   unplannedLeader |-> Len(inf.unplannedLeader),
   noInsyncFollower |-> Len(inf.noInsyncFollower),
   noInsyncAndDeadLeader |-> Len(inf.noInsyncAndDeadLeader),
   brokenEdgeIndexes |-> Len(inf.brokenEdgeIndexes),
   zombies |-> Len(inf.zombies),
   broken |-> Len(inf.broken)]

FindingNames == DOMAIN FindingCounts(EmptyInfo)

AnyFinding(inf) == \E c \in FindingNames : FindingCounts(inf)[c] > 0

Finished == pc.at = "done" /\ ~pc.aborted

\* C1 (as claimed): once the reporters have run, infected is true exactly when
\* some finding collection is non-empty.  The code never consults
\* violatedDistShardLike, so a run may hold such findings and report clean.
C1_InfectedIffAnyFinding ==
  Completed("report") => (infected <=> AnyFinding(info))

\* C2 (as claimed): on a run declared clean ('Did not detect any issues'
\* printed) no artifact file is written.  saveZombieCallbacks runs outside
\* the branch on infected and writes zombie-callbacks.json on a clean run.
C2_CleanRunWritesNothing ==
  clean => \A n \in FileNames : files[n].status # "written"

\* the finding collections the claim names one by one
NamedExports ==
  {"outOfSyncFollowers", "zombieCoordinators", "databasesDeadPrimaries", "emptyDatabases",
   "missingCollections", "correctFailoverCandidates", "brokenEdgeIndexes"}

\* C3 (as claimed): after a run that completed, every non-empty finding
\* collection the claim names is held by a written artifact file.  No save
\* step serializes outOfSyncFollowers.
C3_EveryFindingExported ==
  Finished =>
    \A c \in NamedExports :
      FindingCounts(info)[c] > 0 =>
        \E n \in FileNames : files[n].status = "written" /\ c \in files[n].holds

\* C4 (as claimed): when fs.write fails in one save step, every other save
\* step whose finding is there is still attempted.  The exception of
\* fs.write leaves exports.run, so the later steps never call fs.write.
C4_WriteFailureKeepsSaving ==
  (pc.aborted /\ \E n \in FileNames : files[n].status = "failed") =>
    \A m \in FileNames : Wanted(dump, info)[m] => files[m].status # "none"

\* C5 (as claimed): no analyzer aborts the run, whichever section of the
\* dump is missing.  Object.keys / Object.entries / hasOwnProperty of an
\* undefined section throw and nothing catches them.
C5_AnalyzersNeverAbort ==
  ~(pc.aborted /\ StepNo(pc.at) < StepNo("report"))

\* the records of `list` for position i of shard sh of collection pcol
RecordsFor(list, pcol, sh, i) ==
  { k \in 1..Len(list) :
      /\ list[k].db = pcol.db /\ list[k].name = pcol.cid
      /\ list[k].shard = sh.shard /\ list[k].server = sh.servers[i] }

\* position i of the shard is recorded as the claim says: a dead leader once
\* in leaderOnDeadServer, a dead follower once in followerOnDeadServer, a
\* live node nowhere
PlacementRecorded(pcol, sh, i) ==
  LET leaders == Cardinality(RecordsFor(info.leaderOnDeadServer, pcol, sh, i))
      followers == Cardinality(RecordsFor(info.followerOnDeadServer, pcol, sh, i))
  IN IF sh.servers[i] \in info.primaries THEN leaders = 0 /\ followers = 0
     ELSE IF i = 1 THEN leaders = 1 /\ followers = 0
     ELSE leaders = 0 /\ followers = 1

\* C6 (as claimed): for every collection of Plan.Collections, every shard and
\* every position, the dead-server records are exactly as above.  It fails
\* for the collections of a database that has no Plan.Databases entry: the
\* loop leaves them with `continue` before it looks at their shards.
C6_EveryPlannedCollection ==
  Completed("extractCollectionIntegrity") =>
    \A pcol \in Range(PlanCols(dump)) : \A sh \in Range(pcol.col.shards) :
      \A i \in 1..Len(sh.servers) : PlacementRecorded(pcol, sh, i)

\* C6 (amended): for every collection of Plan.Collections whose database has
\* a Plan.Databases entry, every shard and every position i of its planned
\* server list, a dead node yields exactly one record, in leaderOnDeadServer
\* when i = 0 and in followerOnDeadServer when i > 0, and a live node none;
\* whether the shard has a Current entry plays no part.
C6_DeadServerRecords ==
  Completed("extractCollectionIntegrity") =>
    \A pcol \in Range(PlanCols(dump)) :
      pcol.db \in dump.PlanDatabases =>
        \A sh \in Range(pcol.col.shards) :
          \A i \in 1..Len(sh.servers) : PlacementRecorded(pcol, sh, i)

\* a planned database, a shard without a Current entry whose leader lives and
\* whose follower is dead, recorded in followerOnDeadServer only
C6_Witness ==
  /\ Completed("extractCollectionIntegrity")
  /\ \E pcol \in Range(PlanCols(dump)) : \E sh \in Range(pcol.col.shards) :
       /\ pcol.db \in dump.PlanDatabases
       /\ ~HasCurrent(dump, pcol.db, pcol.cid, sh.shard)
       /\ Len(sh.servers) = 2
       /\ sh.servers[1] \in info.primaries /\ sh.servers[2] \notin info.primaries
       /\ RecordsFor(info.followerOnDeadServer, pcol, sh, 2) # {}
       /\ RecordsFor(info.leaderOnDeadServer, pcol, sh, 1) = {}

\* the planned layout of a collection: the server lists of its shards, the
\* shards taken in the order of their names
Layout(pcol) ==
  LET sorted == InsertionSortByShard(pcol.col.shards)
  IN [i \in 1..Len(sorted) |-> sorted[i].servers]

\* the members of the distribution group with real-leader key `search`
GroupMembers(d, search) ==
  { pcol \in Range(PlanCols(d)) : ~DistNoShards(pcol.col) /\ Search(pcol) = search }

\* C7 (as claimed): a group whose members all have the same planned layout is
\* not in violatedDistShardLike.  The code compares the entries of two
\* freshly built lists with !==, that is by identity, so the second member
\* of any group with an observed shard is reported.
C7_IdenticalLayoutNotViolated ==
  Completed("extractDistributionGroups") =>
    \A g \in Range(info.shardGroups) :
      (\A m1, m2 \in GroupMembers(dump, g.search) : Layout(m1) = Layout(m2))
        => g.search \notin Range(info.violatedDistShardLike)

\* the shard is among the findings of extractOutOfSyncFollowers
OutOfSyncFlagged(pcol, sh) ==
  \E r \in Range(info.outOfSyncFollowers) :
    r.db = pcol.db /\ r.name = pcol.cid /\ r.shard = sh.shard

\* some planned follower is at no position >= 1 of the observed list
FollowerMissing(plan, cur) ==
  \E i \in 2..Len(plan) : \A j \in 2..Len(cur) : cur[j] # plan[i]

\* C8: a planned shard with a Current entry is in outOfSyncFollowers exactly
\* when the observed leader differs from the planned one, or more than one
\* server is planned and a planned follower is missing from the observed
\* followers; a planned shard without a Current entry is never in it.
\* (Server lists name no server twice.)
C8_OutOfSyncFollowers ==
  Completed("extractOutOfSyncFollowers") =>
    \A pcol \in Range(PlanCols(dump)) : \A sh \in Range(pcol.col.shards) :
      IF HasCurrent(dump, pcol.db, pcol.cid, sh.shard)
      THEN LET cur == CurrentOf(dump, pcol.db, pcol.cid, sh.shard).servers
           IN OutOfSyncFlagged(pcol, sh) <=>
                \/ Len(cur) = 0
                \/ cur[1] # sh.servers[1]
                \/ (Len(sh.servers) > 1 /\ FollowerMissing(sh.servers, cur))
      ELSE ~OutOfSyncFlagged(pcol, sh)

\* a shard with its planned leader observed and its planned follower not:
\* it is flagged
C8_Witness ==
  /\ Completed("extractOutOfSyncFollowers")
  /\ \E pcol \in Range(PlanCols(dump)) : \E sh \in Range(pcol.col.shards) :
       /\ HasCurrent(dump, pcol.db, pcol.cid, sh.shard)
       /\ LET cur == CurrentOf(dump, pcol.db, pcol.cid, sh.shard).servers
          IN /\ Len(sh.servers) = 2 /\ Len(cur) = 2
             /\ cur[1] = sh.servers[1] /\ cur[2] # sh.servers[2]
       /\ OutOfSyncFlagged(pcol, sh)

\* the patches recorded for a shard of Current.Collections
FixesFor(cs) ==
  { k \in 1..Len(info.correctFailoverCandidates) :
      info.correctFailoverCandidates[k].path = FailoverPath(cs.db, cs.cid, cs.sh.shard) }

\* C9: a shard of Current.Collections has a patch under its failoverCandidates
\* path exactly when its failoverCandidates share a node with
\* Target.CleanedServers; the patch is [corrected, original], original the
\* failoverCandidates as they are and corrected the same list without the
\* cleaned servers, in the same order.
C9_CleanedFailoverCandidates ==
  Completed("extractCleanedFailoverCandidates") =>
    \A cs \in Range(CurrentShards(dump)) :
      LET original == cs.sh.failoverCandidates
          cleaned == Range(CleanedServersOf(dump))
          corrected == SelectSeq(original, LAMBDA x : x \notin cleaned)
      IN IF Range(original) \cap cleaned # {}
         THEN /\ Cardinality(FixesFor(cs)) = 1
              /\ \A k \in FixesFor(cs) :
                   info.correctFailoverCandidates[k].value = << corrected, original >>
         ELSE FixesFor(cs) = {}

\* CleanedServers = [A], failoverCandidates = [A, B]: corrected [B], original [A, B]
C9_Witness ==
  /\ Completed("extractCleanedFailoverCandidates")
  /\ dump.CleanedServers = <<"A">>
  /\ \E k \in 1..Len(info.correctFailoverCandidates) :
       info.correctFailoverCandidates[k].value = << <<"B">>, <<"A", "B">> >>

\* the dump with the index list at `path` replaced by `good`
ApplyGood(d, path, good) ==
  [d EXCEPT !.PlanCollections =
     [i \in 1..Len(@) |->
        [@[i] EXCEPT !.collections =
           [j \in 1..Len(@) |->
              IF path = <<"Plan", "Collections", d.PlanCollections[i].db,
                          d.PlanCollections[i].collections[j].cid, "indexes">>
              THEN [@[j] EXCEPT !.indexes = good] ELSE @[j]]]]]

\* C10: for every finding of extractBrokenEdgeIndexes, the analyzer run again
\* on the dump with that collection's index list replaced by the finding's
\* `good` list has no finding for the collection.
C10_EdgeIndexFixedPoint ==
  Completed("extractBrokenEdgeIndexes") =>
    \A f \in Range(info.brokenEdgeIndexes) :
      \A g \in Range(extractBrokenEdgeIndexes(ApplyGood(dump, f.path, f.good))) :
        g.path # f.path

\* a collection was flagged, and its `good` list differs from the list it had
C10_Witness ==
  /\ Completed("extractBrokenEdgeIndexes")
  /\ \E f \in Range(info.brokenEdgeIndexes) :
       /\ f.good # f.bad
       /\ \E pcol \in Range(PlanCols(ApplyGood(dump, f.path, f.good))) :
            pcol.col.indexes = f.good /\ Len(f.good) > 2

\* Plan, Current, Supervision and Target present and empty
EmptySnapshot(d) ==
  /\ d.absent = {}
  /\ d.PlanDatabases = {} /\ d.PlanCollections = <<>> /\ d.PlanCoordinators = {}
  /\ d.CurrentCoordinators = <<>> /\ d.CurrentDatabases = <<>> /\ d.CurrentCollections = <<>>
  /\ \A s \in Servers : d.Health[s] = "NONE"
  /\ d.CleanedServers = <<>>

\* C11: on a snapshot whose sections are present and empty no analyzer
\* throws, every finding collection is empty after the analyzers, and the
\* reporters leave infected false, so the run is declared clean.
C11_EmptySnapshotClean ==
  EmptySnapshot(dump) =>
    /\ ~pc.aborted
    /\ \A c \in FindingNames : FindingCounts(info)[c] = 0
    /\ ~infected
    /\ Completed("report") => pc.at \in {"printClean", "saveZombieCallbacks", "done"}

\* an empty snapshot whose run printed 'Did not detect any issues' and ended
C11_Witness ==
  EmptySnapshot(dump) /\ clean /\ Finished

\* shards absent, empty or not a mapping
ShardsUnusable(col) == col.shardsKind # "object" \/ Len(col.shards) = 0

InNoShardCollections(pcol) ==
  \E r \in Range(info.noShardCollections) : r.db = pcol.db /\ r.name = pcol.cid

\* C12 (as claimed): a collection of a planned database is in
\* noShardCollections exactly when its shards are absent, empty or malformed
\* and it is not smart.  The code exempts a smart collection only when its
\* shards are an empty mapping: with shards absent or an array it records
\* the smart collection too.
C12_NoShardCollections ==
  Completed("extractCollectionIntegrity") =>
    \A pcol \in Range(PlanCols(dump)) :
      pcol.db \in dump.PlanDatabases =>
        (InNoShardCollections(pcol) <=> (ShardsUnusable(pcol.col) /\ ~pcol.col.isSmart))

\* the positions of realLeaderMissing that hold a record for the collection
LeaderRecords(pcol) ==
  { k \in 1..Len(info.realLeaderMissing) :
      info.realLeaderMissing[k].db = pcol.db /\ info.realLeaderMissing[k].name = pcol.cid }

\* distributeShardsLike is set and names no collection of the same database
DanglingDistLike(pcol) ==
  /\ pcol.col.distributeShardsLike # ""
  /\ \A other \in Range(PlanCols(dump)) :
       other.db = pcol.db => other.cid # pcol.col.distributeShardsLike

\* C13: for every collection with shards in a planned database,
\* realLeaderMissing holds exactly one record for it, carrying its
\* distributeShardsLike, when that value is set and is not a collection id
\* of the same database, and no record otherwise.
C13_RealLeaderMissing ==
  Completed("extractCollectionIntegrity") =>
    \A pcol \in Range(PlanCols(dump)) :
      (pcol.db \in dump.PlanDatabases /\ ~ShardsUnusable(pcol.col)) =>
        IF DanglingDistLike(pcol)
        THEN /\ Cardinality(LeaderRecords(pcol)) = 1
             /\ \A k \in LeaderRecords(pcol) :
                  info.realLeaderMissing[k].distributeShardsLike = pcol.col.distributeShardsLike
        ELSE LeaderRecords(pcol) = {}

\* one collection follows a collection that is not there and is recorded,
\* another one of the same database has shards and no record
C13_Witness ==
  /\ Completed("extractCollectionIntegrity")
  /\ \E pcol \in Range(PlanCols(dump)) :
       /\ pcol.db \in dump.PlanDatabases /\ ~ShardsUnusable(pcol.col)
       /\ DanglingDistLike(pcol) /\ Cardinality(LeaderRecords(pcol)) = 1
  /\ Len(info.realLeaderMissing) = 1

\* how many records {cid, shard, search} a collection of info holds for a shard
GroupRecords(list, pcol, sh) ==
  Cardinality({ k \in 1..Len(list) :
                  list[k] = [cid |-> pcol.cid, shard |-> sh.shard, search |-> Search(pcol)] })

\* the planned shards extractDistributionGroups looks at
PlannedShards(pcol) == IF pcol.col.shardsKind = "object" THEN pcol.col.shards ELSE <<>>

\* C14: for every planned shard with a Current entry, unplannedLeader holds a
\* record iff the observed leader differs from the planned one,
\* noInsyncFollower iff more than one server is planned and at most one is
\* observed, noInsyncAndDeadLeader iff noInsyncFollower does and the observed
\* leader is not a live node; a planned shard without a Current entry has no
\* record in any of the three.
C14_DistributionFindings ==
  Completed("extractDistributionGroups") =>
    \A pcol \in Range(PlanCols(dump)) : \A sh \in Range(PlannedShards(pcol)) :
      LET unplanned == GroupRecords(info.unplannedLeader, pcol, sh)
          noInsync == GroupRecords(info.noInsyncFollower, pcol, sh)
          deadLeader == GroupRecords(info.noInsyncAndDeadLeader, pcol, sh)
      IN IF HasCurrent(dump, pcol.db, pcol.cid, sh.shard)
         THEN LET observed == CurrentOf(dump, pcol.db, pcol.cid, sh.shard).servers
              IN /\ unplanned = (IF Len(observed) = 0 \/ observed[1] # sh.servers[1] THEN 1 ELSE 0)
                 /\ noInsync = (IF Len(sh.servers) >= 2 /\ Len(observed) \in {0, 1} THEN 1 ELSE 0)
                 /\ deadLeader = (IF noInsync = 1 /\ (Len(observed) = 0 \/ observed[1] \notin info.primaries)
                                  THEN 1 ELSE 0)
         ELSE unplanned = 0 /\ noInsync = 0 /\ deadLeader = 0

\* a shard planned on two servers and observed on its dead leader alone is
\* in noInsyncFollower and noInsyncAndDeadLeader and not in unplannedLeader,
\* while another planned shard has no Current entry
C14_Witness ==
  /\ Completed("extractDistributionGroups")
  /\ \E pcol \in Range(PlanCols(dump)) : \E sh \in Range(PlannedShards(pcol)) :
       /\ HasCurrent(dump, pcol.db, pcol.cid, sh.shard)
       /\ Len(sh.servers) = 2
       /\ CurrentOf(dump, pcol.db, pcol.cid, sh.shard).servers = << sh.servers[1] >>
       /\ sh.servers[1] \notin info.primaries
       /\ GroupRecords(info.noInsyncFollower, pcol, sh) = 1
       /\ GroupRecords(info.noInsyncAndDeadLeader, pcol, sh) = 1
       /\ GroupRecords(info.unplannedLeader, pcol, sh) = 0
  /\ \E pcol \in Range(PlanCols(dump)) : \E sh \in Range(PlannedShards(pcol)) :
       ~HasCurrent(dump, pcol.db, pcol.cid, sh.shard)

\* the position of a server in the planned list of a record's shard
PlannedPosition(rec, server) ==
  LET group == GroupOf(info.shardGroups, rec.search)
  IN IndexOf(MemberPlan(group, rec.cid)[ShardIndexOf(info, rec)].servers, server)

\* C15 (as claimed): every printed list of failover candidates is in
\* descending order of the in-sync count, candidates of equal count in the
\* order of the planned list.  The comparator of the sort answers a boolean:
\* the list comes out ascending, or as it was built.
C15_CandidatesDescending ==
  \A p \in Range(printed.candidates) :
    \A i, j \in 1..Len(p.candidates) :
      i < j =>
        /\ Len(p.candidates[i].insync) >= Len(p.candidates[j].insync)
        /\ Len(p.candidates[i].insync) = Len(p.candidates[j].insync) =>
             PlannedPosition(p.rec, p.candidates[i].server)
               < PlannedPosition(p.rec, p.candidates[j].server)

\* the number printed for a server in the per-server table (none: 0)
RiskCount(server) ==
  IF \E i \in 1..Len(printed.counters) : printed.counters[i].server = server
  THEN (CHOOSE row \in Range(printed.counters) : row.server = server).number
  ELSE 0

\* C16 (as claimed): after the reporters, the count printed for a server is
\* the number of outOfSyncFollowers records whose observed list has that
\* server at index 0.  The code counts under servers[0], the planned leader.
C16_RiskCountByCurrentLeader ==
  Completed("report") =>
    \A s \in Servers :
      RiskCount(s) = Cardinality({ k \in 1..Len(info.outOfSyncFollowers) :
                                     At0(info.outOfSyncFollowers[k].current) = s })

\* the plan collection a finding of extractBrokenEdgeIndexes points at
FlaggedBy(pcol) ==
  { k \in 1..Len(info.brokenEdgeIndexes) :
      info.brokenEdgeIndexes[k].path = <<"Plan", "Collections", pcol.db, pcol.cid, "indexes">> }

\* a record with id "1", type and name "edge" and more than one field
Corrupted(index) ==
  index.id = "1" /\ index.type = "edge" /\ index.name = "edge" /\ Len(index.fields) >= 2

HowMany(list, x) == Cardinality({ k \in 1..Len(list) : list[k] = x })

\* a is b with some of its elements left out
RECURSIVE IsSubsequence(_, _)
IsSubsequence(a, b) ==
  IF a = <<>> THEN TRUE
  ELSE IF b = <<>> THEN FALSE
  ELSE IF Head(a) = Head(b) THEN IsSubsequence(Tail(a), Tail(b))
  ELSE IsSubsequence(a, Tail(b))

\* no two records of the list share an id
UniqueIds(list) == \A i, j \in 1..Len(list) : list[i].id = list[j].id => i = j

\* C17 (as claimed): a collection is flagged iff its index list holds a
\* corrupted record; the good list of a flagged collection (index ids taken
\* unique) holds the record on _from and the record on _to once each, and
\* every record of the original list other than the corrupted one is in
\* good, unchanged and in the original order; bad is the original list.
\* It fails for an original record with id "2" that is not the synthesized
\* one: the code drops every record with id "2".
C17_EdgeIndexReplacement ==
  Completed("extractBrokenEdgeIndexes") =>
    \A pcol \in Range(PlanCols(dump)) :
      /\ (FlaggedBy(pcol) # {}) <=> (\E index \in Range(pcol.col.indexes) : Corrupted(index))
      /\ \A k \in FlaggedBy(pcol) :
           LET f == info.brokenEdgeIndexes[k]
           IN /\ f.bad = pcol.col.indexes
              /\ UniqueIds(f.bad) =>
                   /\ HowMany(f.good, GoodFrom) = 1 /\ HowMany(f.good, GoodTo) = 1
                   /\ IsSubsequence(SelectSeq(f.bad, LAMBDA x : ~Corrupted(x)), f.good)

\* C17 (amended): a collection is flagged iff its index list holds a
\* corrupted record; in the good list of a flagged collection every record
\* of the original list with id "1" is replaced by the pair (id "1" on
\* _from, id "2" on _to), every original record with id "2" is left out, and
\* the records with any other id are there unchanged and in their original
\* order; bad is the original list.
C17_EdgeIndexReplacementById ==
  Completed("extractBrokenEdgeIndexes") =>
    \A pcol \in Range(PlanCols(dump)) :
      /\ Cardinality(FlaggedBy(pcol)) =
           (IF \E index \in Range(pcol.col.indexes) : Corrupted(index) THEN 1 ELSE 0)
      /\ \A k \in FlaggedBy(pcol) :
           LET f == info.brokenEdgeIndexes[k]
               firsts == HowMany([i \in 1..Len(f.bad) |-> f.bad[i].id], "1")
               other(x) == x.id \notin {"1", "2"}
           IN /\ f.bad = pcol.col.indexes
              /\ HowMany(f.good, GoodFrom) = firsts /\ HowMany(f.good, GoodTo) = firsts
              /\ \A i \in 1..Len(f.good) :
                   /\ f.good[i].id = "1" => f.good[i] = GoodFrom
                   /\ f.good[i].id = "2" => f.good[i] = GoodTo
                   /\ f.good[i] = GoodFrom => (i < Len(f.good) /\ f.good[i + 1] = GoodTo)
              /\ SelectSeq(f.good, other) = SelectSeq(f.bad, other)
              /\ (Len(f.bad) > 0 /\ Corrupted(f.bad[1])) => SubSeq(f.good, 1, 2) = << GoodFrom, GoodTo >>

\* a flagged collection whose corrupted record came first and was followed
\* by another index, kept behind the synthesized pair
C17_Witness ==
  /\ Completed("extractBrokenEdgeIndexes")
  /\ \E f \in Range(info.brokenEdgeIndexes) :
       /\ Len(f.bad) = 2 /\ Corrupted(f.bad[1]) /\ f.bad[2].id \notin {"1", "2"}
       /\ f.good = << GoodFrom, GoodTo, f.bad[2] >>

\* C18 (as claimed): whenever extractDistributionGroups produced a
\* noInsyncAndDeadLeader record, saveDistributionGroups raises no error of
\* its own and goes on to write forceFailover.json.  It reads position
\* shardIndex of every member's observed list: a member with fewer observed
\* shards has undefined there, and destructuring it throws.
C18_SaveDistributionGroupsCompletes ==
  (Len(info.noInsyncAndDeadLeader) > 0 /\ pc.at = "saveDistributionGroups" /\ pc.aborted)
    => files["forceFailover.json"].status = "failed"

====
